---- MODULE Spec2Model ----
(***************************************************************************)
(* Model of the past-paper explainer (app.py and its metadata/Stripe       *)
(* variant test_stripe.py).                                                *)
(*                                                                         *)
(* Strings of the program are sequences of one-character strings.          *)
(* A position p in a string s is a number of characters already consumed:  *)
(* 0 is the start, Len(s) the end, and s[p+1] is the character at p.       *)
(***************************************************************************)
EXTENDS Integers, Sequences, FiniteSets, TLC

VARIABLES
    text,       \* argument `text` of _extract_block
    q,          \* argument `q` of _extract_block
    variant,    \* which source file's _extract_block runs
    result,     \* outcome of the call, NoCall before it
    tests,      \* stop tests the call's re.search evaluated
    search_count,               \* st.session_state["search_count"]
    locked,                     \* st.session_state["locked"]
    show_subscription_popup,    \* st.session_state["show_subscription_popup"]
    user_email,                 \* st.session_state["user_email"]
    current_page,               \* st.session_state["current_page"]
    active,     \* emails the backend reports as subscribed
    mongo_ok,   \* _mongo_ok
    fs,         \* the files of GridFS, in the order fs.find() lists them
    shown,      \* what the last script run rendered under the Explain button
    clicks,     \* effective Explain clicks of the session so far
    free_user,  \* no effective click so far was made with an active subscription
    outcome,    \* what the most recent effective Explain click did
    folder,             \* os.listdir(DATA_DIR)
    papers_metadata,    \* filenames with a record in papers_metadata
    upload_log,         \* the runs of upload_pdfs_to_mongo so far
    sessions,           \* what get_qp_files_by_session() returned
    subscriptions,      \* the documents of subscriptions_collection, in order
    stripe_env,         \* the stripe import and the two configured secrets
    last_webhook,       \* the latest call of handle_stripe_webhook
    cancelled,          \* emails cancelled by a webhook and not checked out since
    checkouts,          \* checkout sessions Stripe has completed so far
    success_param,      \* the page URL carries ?success=true
    temp_files,         \* the files under TEMP_DIR, by filename
    fetch,              \* where each session stands in fetching a paper
    gridfs,             \* the files of GridFS with their ids (admin pages)
    papers,             \* the documents of papers_collection (admin pages)
    puts                \* calls of fs.put that stored a file so far

evars == <<text, q, variant, result, tests>>

svars == <<search_count, locked, show_subscription_popup, user_email,
           current_page, active, mongo_ok, fs, shown, clicks, free_user,
           outcome>>

gvars == <<folder, papers_metadata, upload_log, sessions>>

wvars == <<subscriptions, stripe_env, last_webhook, cancelled, checkouts>>

tvars == <<temp_files, fetch>>

avars == <<gridfs, papers, puts>>

ovars == <<wvars, success_param, tvars, avars>>

vars == <<evars, svars, gvars, ovars>>

(***************************************************************************)
(* Bounds of the model.                                                    *)
(***************************************************************************)
MaxLines == 3

MaxClicks == 5

MaxStored == 3

MaxScanLines == 6

MaxPreloaded == 1

MaxFolder == 2

MaxRuns == 3

MaxCheckouts == 2

MaxPuts == 3

MaxViewers == 2

(***************************************************************************)
(* Character classes of Python's str and re.                               *)
(***************************************************************************)
NL == "\n"
CROSS == "U+274C"

Digits == {"0", "1", "2", "3", "4", "5", "6", "7", "8", "9"}

LowerLetters ==
    {"a", "b", "c", "d", "e", "f", "g", "h", "i", "j", "k", "l", "m",
     "n", "o", "p", "q", "r", "s", "t", "u", "v", "w", "x", "y", "z"}

UpperLetters ==
    {"A", "B", "C", "D", "E", "F", "G", "H", "I", "J", "K", "L", "M",
     "N", "O", "P", "Q", "R", "S", "T", "U", "V", "W", "X", "Y", "Z"}

RomanLetters == {"i", "v", "x", "l"}

IsSpace(c) == c \in {" ", NL, "\t", "\r", "\f"}

IsWord(c) == c \in Digits \cup LowerLetters \cup UpperLetters \cup {"_"}

\* characters re.escape prefixes with a backslash
SpecialChars ==
    {"(", ")", "[", "]", "{", "}", "?", "*", "+", "-", "|", "^", "$",
     "\\", ".", "&", "~", "#", " ", "\t", NL, "\r", "\f"}

Min(S) == CHOOSE x \in S : \A y \in S : x <= y

Max(S) == CHOOSE x \in S : \A y \in S : x >= y

RECURSIVE Flatten(_)
Flatten(ss) == IF ss = <<>> THEN <<>> ELSE Head(ss) \o Flatten(Tail(ss))

(***************************************************************************)
(* str.strip(): drop the leading and the trailing run of whitespace.       *)
(***************************************************************************)
strip(s) ==
    LET keep == {i \in 1..Len(s) : ~IsSpace(s[i])}
    IN  IF keep = {} THEN <<>> ELSE SubSeq(s, Min(keep), Max(keep))

\* re.escape() left out: the label interpolated as it is
re_escape_none(s) == s

(***************************************************************************)
(* re.escape(): a backslash before every special character.                *)
(***************************************************************************)
re_escape(s) ==
    Flatten([i \in 1..Len(s) |->
                IF s[i] \in SpecialChars THEN <<"\\", s[i]>> ELSE <<s[i]>>])

(***************************************************************************)
(* The regex compiler on the interpolated label: a backslash makes the     *)
(* next character a literal; a bare "." is any character (DOTALL), bare    *)
(* parentheses open and close a group; any other character is a literal.   *)
(***************************************************************************)
RECURSIVE sre_parse(_)
sre_parse(p) ==
    IF p = <<>> THEN <<>>
    ELSE IF Head(p) = "\\"
         THEN IF Len(p) = 1
              THEN <<[kind |-> "bad", ch |-> "\\"]>>
              ELSE <<[kind |-> "lit", ch |-> p[2]]>> \o sre_parse(SubSeq(p, 3, Len(p)))
         ELSE <<[kind |-> IF Head(p) = "." THEN "any"
                          ELSE IF Head(p) = "(" THEN "open"
                          ELSE IF Head(p) = ")" THEN "close"
                          ELSE "lit",
                 ch |-> Head(p)]>> \o sre_parse(Tail(p))

\* nesting depth after each item; re.error when it goes negative, when a
\* group stays open, or when the pattern ends in a lone backslash
RECURSIVE Depth(_, _)
Depth(items, n) ==
    IF n = 0 THEN 0
    ELSE Depth(items, n - 1)
         + (IF items[n].kind = "open" THEN 1
            ELSE IF items[n].kind = "close" THEN -1 ELSE 0)

re_error(items) ==
    \/ \E n \in 1..Len(items) : items[n].kind = "bad"
    \/ \E n \in 1..Len(items) : Depth(items, n) < 0
    \/ Depth(items, Len(items)) # 0

(***************************************************************************)
(* Matching the compiled label at position p: the position after it, or    *)
(* -1.  Every item consumes a fixed number of characters.                  *)
(***************************************************************************)
RECURSIVE MatchItems(_, _, _)
MatchItems(s, p, items) ==
    IF items = <<>> THEN p
    ELSE LET it == Head(items)
         IN  IF it.kind \in {"open", "close"} THEN MatchItems(s, p, Tail(items))
             ELSE IF p >= Len(s) THEN -1
             ELSE IF it.kind = "any" \/ s[p + 1] = it.ch
                  THEN MatchItems(s, p + 1, Tail(items))
                  ELSE -1

\* the pattern without its "^" anchor
AtLineStart_any(s, p) == TRUE

\* "^" under re.MULTILINE
AtLineStart(s, p) == p = 0 \/ s[p] = NL

\* "\b": exactly one side of p is a word character
WordBoundary(s, p) ==
    LET before == p >= 1 /\ IsWord(s[p])
        after  == p < Len(s) /\ IsWord(s[p + 1])
    IN  before # after

\* positions reachable from p by "\s*"
RECURSIVE AfterSpaces(_, _)
AfterSpaces(s, p) ==
    {p} \cup (IF p < Len(s) /\ IsSpace(s[p + 1]) THEN AfterSpaces(s, p + 1) ELSE {})

\* positions reachable from p by "\d+"
RECURSIVE AfterDigits(_, _)
AfterDigits(s, p) ==
    IF p < Len(s) /\ s[p + 1] \in Digits
    THEN {p + 1} \cup AfterDigits(s, p + 1)
    ELSE {}

\* positions reachable from p by "(\([a-z]\))*"
RECURSIVE AfterLetterGroups(_, _)
AfterLetterGroups(s, p) ==
    {p} \cup (IF /\ p + 3 <= Len(s)
                 /\ s[p + 1] = "("
                 /\ s[p + 2] \in LowerLetters
                 /\ s[p + 3] = ")"
              THEN AfterLetterGroups(s, p + 3)
              ELSE {})

\* positions reachable from p by "[ivxl]+"
RECURSIVE AfterRomans(_, _)
AfterRomans(s, p) ==
    IF p < Len(s) /\ s[p + 1] \in RomanLetters
    THEN {p + 1} \cup AfterRomans(s, p + 1)
    ELSE {}

\* positions reachable from p by "(\([ivxl]+\))*"
RECURSIVE AfterRomanGroups(_, _)
AfterRomanGroups(s, p) ==
    {p} \cup (IF p < Len(s) /\ s[p + 1] = "("
              THEN UNION {AfterRomanGroups(s, r + 1) :
                            r \in {r \in AfterRomans(s, p + 1) :
                                     r < Len(s) /\ s[r + 1] = ")"}}
              ELSE {})

\* a next_token that accepts sibling questions only, not sub-parts
next_token_sibling(s, p) ==
    /\ AtLineStart(s, p)
    /\ \E a \in AfterSpaces(s, p) :
         \E d \in AfterDigits(s, a) :
           /\ WordBoundary(s, d)
           /\ ~(d < Len(s) /\ s[d + 1] = "(")

(***************************************************************************)
(* next_token = ^\s*\d+(\([a-z]\))*(\([ivxl]+\))*\b  tried at position p.  *)
(***************************************************************************)
next_token(s, p) ==
    /\ AtLineStart(s, p)
    /\ \E a \in AfterSpaces(s, p) :
         \E d \in AfterDigits(s, a) :
           \E g \in AfterLetterGroups(s, d) :
             \E r \in AfterRomanGroups(s, g) :
               WordBoundary(s, r)

\* the lookahead (?=next_token|\Z)
lookahead(s, p) == next_token(s, p) \/ p = Len(s)

(***************************************************************************)
(* pattern = (?ms)^\s*{escaped_q}[^\n]*\n(?:.*?\n)*?(?={next_token}|\Z)    *)
(* tried at start position p with the "\s*" ending at a: the end of the    *)
(* match, or -1.  "[^\n]*\n" runs to the first newline; the lazy           *)
(* "(?:.*?\n)*?" then stops after the earliest newline at which the        *)
(* lookahead succeeds.                                                     *)
(***************************************************************************)
\* the same with a greedy "(?:.*?\n)*"
match_end_greedy(s, a, items) ==
    LET e0 == MatchItems(s, a, items)
        nls == IF e0 < 0 THEN {} ELSE {i \in (e0 + 1)..Len(s) : s[i] = NL}
        stops == {i \in nls : lookahead(s, i)}
    IN  IF stops = {} THEN -1 ELSE Max(stops)

\* the same with a "\b" after the label
match_end_word(s, a, items) ==
    LET e0 == MatchItems(s, a, items)
        nls == IF e0 < 0 \/ ~WordBoundary(s, e0) THEN {}
               ELSE {i \in (e0 + 1)..Len(s) : s[i] = NL}
        stops == {i \in nls : lookahead(s, i)}
    IN  IF stops = {} THEN -1 ELSE Min(stops)

match_end(s, a, items) ==
    LET e0 == MatchItems(s, a, items)
        nls == IF e0 < 0 THEN {} ELSE {i \in (e0 + 1)..Len(s) : s[i] = NL}
        stops == {i \in nls : lookahead(s, i)}
    IN  IF stops = {} THEN -1 ELSE Min(stops)

\* the ends "\s*" can take from p, for which the rest of the pattern matches
match_spaces(s, p, items) ==
    {a \in AfterSpaces(s, p) : match_end(s, a, items) >= 0}

\* re.search: the leftmost start; there the greedy "\s*" keeps the longest
\* run the rest of the pattern accepts
NoMatch == [start |-> -1, end |-> -1]

re_search(s, items) ==
    LET starts == {p \in 0..Len(s) :
                     AtLineStart(s, p) /\ match_spaces(s, p, items) # {}}
    IN  IF starts = {} THEN NoMatch
        ELSE LET p == Min(starts)
                 a == Max(match_spaces(s, p, items))
             IN  [start |-> p, end |-> match_end(s, a, items)]

(***************************************************************************)
(* The two not-found markers, as each source file spells them.             *)
(***************************************************************************)
Variants == {"app", "test_stripe"}

MarkerHead(v) == IF v = "app" THEN <<" ">> ELSE <<CROSS, " ">>

NotFoundEmpty(v) ==
    MarkerHead(v) \o <<"N", "o", "t", " ", "f", "o", "u", "n", "d", " ",
                       "(", "e", "m", "p", "t", "y", " ", "t", "e", "x", "t", ")", ".">>

NotFound(v) ==
    MarkerHead(v) \o <<"N", "o", "t", " ", "f", "o", "u", "n", "d", ".">>

(***************************************************************************)
(* _extract_block(text, q).  exc is TRUE when the call raises.             *)
(* m records what re.search gave: "unsearched" when the call returned       *)
(* before it, "None" or "Match".                                           *)
(***************************************************************************)
Returned(s, m) == [exc |-> FALSE, ret |-> s, m |-> m]

Raised == [exc |-> TRUE, ret |-> <<>>, m |-> "unsearched"]

\* `not text`: only the empty string counts as blank
IsBlank_empty(s) == s = <<>>

\* `not text.strip()`
IsBlank(s) == strip(s) = <<>>

_extract_block(v, s, label) ==
    IF IsBlank(s) THEN Returned(NotFoundEmpty(v), "unsearched")
    ELSE LET escaped_q == re_escape(strip(label))
             items == sre_parse(escaped_q)
             m == re_search(s, items)
         IN  IF re_error(items) THEN Raised
             ELSE IF m.start >= 0
                  THEN Returned(strip(SubSeq(s, m.start + 1, m.end)), "Match")
                  ELSE Returned(NotFound(v), "None")

(***************************************************************************)
(* The work of re.search on the pattern.  The engine backtracks: the lazy  *)
(* "(?:.*?\n)*?" first evaluates the lookahead where it stands, and when   *)
(* that fails it runs one more iteration ".*?\n", whose lazy ".*?" (the    *)
(* dot matches a newline too) ends the iteration after each later newline  *)
(* in turn.  A run counts the evaluations of the lookahead.                *)
(***************************************************************************)
\* the ends one iteration ".*?\n" can take from p, in the order tried
NewlineEnds(s, p) == {e \in (p + 1)..Len(s) : s[e] = NL}

RECURSIVE tail_run(_, _)
RECURSIVE try_ends(_, _)
\* "(?:.*?\n)*?(?=next_token|\Z)" tried at p
tail_run(s, p) ==
    IF lookahead(s, p) THEN [ok |-> TRUE, tests |-> 1]
    ELSE LET r == try_ends(s, NewlineEnds(s, p))
         IN  [ok |-> r.ok, tests |-> 1 + r.tests]

\* the iteration ends tried in increasing order until one leads to a match
try_ends(s, ends) ==
    IF ends = {} THEN [ok |-> FALSE, tests |-> 0]
    ELSE LET e == Min(ends)
             r == tail_run(s, e)
         IN  IF r.ok THEN r
             ELSE LET rest == try_ends(s, ends \ {e})
                  IN  [ok |-> rest.ok, tests |-> r.tests + rest.tests]

\* "{escaped_q}[^\n]*\n" from a: the position after the newline that ends
\* the line, or -1
label_line_end(s, a, items) ==
    LET e0 == MatchItems(s, a, items)
        nls == IF e0 < 0 THEN {} ELSE {i \in (e0 + 1)..Len(s) : s[i] = NL}
    IN  IF nls = {} THEN -1 ELSE Min(nls)

\* the greedy "\s*" from p gives back one character at a time
RECURSIVE spaces_run(_, _, _)
spaces_run(s, ends, items) ==
    IF ends = {} THEN [ok |-> FALSE, tests |-> 0]
    ELSE LET a == Max(ends)
             p0 == label_line_end(s, a, items)
             r == IF p0 < 0 THEN [ok |-> FALSE, tests |-> 0] ELSE tail_run(s, p0)
         IN  IF r.ok THEN r
             ELSE LET rest == spaces_run(s, ends \ {a}, items)
                  IN  [ok |-> rest.ok, tests |-> r.tests + rest.tests]

\* re.search tries the start positions from left to right
RECURSIVE search_run(_, _, _)
search_run(s, starts, items) ==
    IF starts = {} THEN [ok |-> FALSE, tests |-> 0]
    ELSE LET p == Min(starts)
             r == spaces_run(s, AfterSpaces(s, p), items)
         IN  IF r.ok THEN r
             ELSE LET rest == search_run(s, starts \ {p}, items)
                  IN  [ok |-> rest.ok, tests |-> r.tests + rest.tests]

\* the lookahead evaluations of one call _extract_block(text, q)
extract_tests(s, label) ==
    LET items == sre_parse(re_escape(strip(label)))
    IN  IF IsBlank(s) \/ re_error(items) THEN 0
        ELSE search_run(s, {p \in 0..Len(s) : AtLineStart(s, p)}, items).tests

(***************************************************************************)
(* Inputs of _extract_block.  A document text is up to MaxLines lines, each *)
(* ended by a newline, with or without the newline of the last line.       *)
(***************************************************************************)
NoCall == [exc |-> FALSE, ret |-> <<>>, m |-> "nocall"]

LineKinds ==
    << <<"3", " ", "x">>,
       <<"3", "0", " ", "x">>,
       <<"3", "(", "a", ")", " ", "x">>,
       <<"4", " ", "x">>,
       <<"x">>,
       <<" ">>,
       <<" ", "3", "r", "d">>,
       <<CROSS, " ", "N", "o", "t", " ", "f", "o", "u", "n", "d", ".">>,
       <<"3", "(", "B", ")", " ", "x">>,
       <<"9", ".", "8">> >>

Labels ==
    { <<"3">>,
      <<"3", "(", "a", ")">>,
      <<"3", " ">>,
      <<>>,
      <<"(">>,
      <<"3", ".">>,
      <<CROSS>> }

MakeText(ls, final_newline) ==
    LET full == Flatten([i \in 1..Len(ls) |-> LineKinds[ls[i]] \o <<NL>>])
    IN  IF final_newline \/ full = <<>> THEN full
        ELSE SubSeq(full, 1, Len(full) - 1)

SessionInit ==
    /\ search_count = 0
    /\ locked = FALSE
    /\ show_subscription_popup = FALSE
    /\ user_email = ""
    /\ current_page = "home"

\* get_qp_files_by_session() not called yet, and what a call returned
NoListing == [called |-> FALSE, raised |-> FALSE, items |-> <<>>]

Listing(items, raised) == [called |-> TRUE, raised |-> raised, items |-> items]

IdleStore ==
    /\ folder = <<>>
    /\ papers_metadata = {}
    /\ upload_log = <<>>
    /\ sessions = NoListing

\* no call of handle_stripe_webhook yet
NoWebhook ==
    [type |-> "none", customer_email |-> "None", plan |-> "None",
     customer |-> "None", verification |-> "none", ret |-> "none"]

IdleWebhook ==
    /\ subscriptions = <<>>
    /\ stripe_env = [lib |-> TRUE, secret_key |-> TRUE, webhook_secret |-> TRUE]
    /\ last_webhook = NoWebhook
    /\ cancelled = {}
    /\ checkouts = 0

IdleTemp ==
    /\ temp_files = <<>>
    /\ fetch = <<>>

IdleAdmin ==
    /\ gridfs = <<>>
    /\ papers = <<>>
    /\ puts = 0

IdleOther ==
    /\ IdleWebhook
    /\ success_param = FALSE
    /\ IdleTemp
    /\ IdleAdmin

NoOutcome ==
    [kind |-> "none", warning |-> FALSE, popup |-> FALSE,
     sub |-> [has_subscription |-> FALSE],
     extracted |-> FALSE, llm |-> FALSE, question |-> <<>>, answer |-> <<>>]

IdleSession ==
    /\ SessionInit
    /\ active = {}
    /\ mongo_ok = TRUE
    /\ fs = <<>>
    /\ IdleStore
    /\ shown = "none"
    /\ clicks = 0
    /\ free_user = TRUE
    /\ outcome = NoOutcome
    /\ IdleOther

ExtractInit ==
    /\ \E n \in 0..MaxLines :
         \E ls \in [1..n -> 1..Len(LineKinds)] :
           \E final_newline \in BOOLEAN :
             text = MakeText(ls, final_newline)
    /\ q \in Labels
    /\ variant \in Variants
    /\ result = NoCall
    /\ tests = 0
    /\ IdleSession

\* a call _extract_block(text, q)
ExtractBlock ==
    /\ result = NoCall
    /\ result' = _extract_block(variant, text, q)
    /\ tests' = extract_tests(text, q)
    /\ UNCHANGED <<text, q, variant>>
    /\ UNCHANGED svars
    /\ UNCHANGED gvars
    /\ UNCHANGED ovars

ExtractNext == ExtractBlock

SpecExtract == ExtractInit /\ [][ExtractNext]_vars

(***************************************************************************)
(* Longer texts of two kinds of line, for the work of the search.          *)
(***************************************************************************)
ScanLineKinds == << <<"3", " ", "x">>, <<"x">> >>

ScanLabels == { <<"3">>, <<"x">> }

MakeScanText(ls, final_newline) ==
    LET full == Flatten([i \in 1..Len(ls) |-> ScanLineKinds[ls[i]] \o <<NL>>])
    IN  IF final_newline \/ full = <<>> THEN full
        ELSE SubSeq(full, 1, Len(full) - 1)

ScanInit ==
    /\ \E n \in 0..MaxScanLines :
         \E ls \in [1..n -> 1..Len(ScanLineKinds)] :
           \E final_newline \in BOOLEAN :
             text = MakeScanText(ls, final_newline)
    /\ q \in ScanLabels
    /\ variant \in Variants
    /\ result = NoCall
    /\ tests = 0
    /\ IdleSession

SpecScan == ScanInit /\ [][ExtractNext]_vars

(***************************************************************************)
(* Strings of file names and session labels.                               *)
(***************************************************************************)
EN_DASH == "U+2013"

\* the characters of file names and labels, in code point order
CodePoints ==
    <<"-", ".", "0", "1", "2", "3", "4", "5", "6", "7", "8", "9",
      "A", "B", "C", "D", "E", "F", "G", "H", "I", "J", "K", "L", "M",
      "N", "O", "P", "Q", "R", "S", "T", "U", "V", "W", "X", "Y", "Z", "_",
      "a", "b", "c", "d", "e", "f", "g", "h", "i", "j", "k", "l", "m",
      "n", "o", "p", "q", "r", "s", "t", "u", "v", "w", "x", "y", "z",
      EN_DASH>>

\* ord(c), up to an order-preserving renumbering
ord(c) == CHOOSE i \in 1..Len(CodePoints) : CodePoints[i] = c

\* a < b on str: the first differing character decides, a proper prefix is
\* smaller
RECURSIVE str_lt(_, _)
str_lt(a, b) ==
    IF b = <<>> THEN FALSE
    ELSE IF a = <<>> THEN TRUE
    ELSE IF Head(a) = Head(b) THEN str_lt(Tail(a), Tail(b))
    ELSE ord(Head(a)) < ord(Head(b))

\* str.lower() on one character
lower(c) ==
    IF c \in UpperLetters THEN CodePoints[ord(c) + 27] ELSE c

\* sub in s
contains(s, sub) ==
    \E i \in 0..(Len(s) - Len(sub)) : SubSeq(s, i + 1, i + Len(sub)) = sub

\* s.endswith(suf)
endswith(s, suf) ==
    Len(suf) <= Len(s) /\ SubSeq(s, Len(s) - Len(suf) + 1, Len(s)) = suf

\* s[a:b] for 0 <= a <= b
slice(s, a, b) ==
    SubSeq(s, a + 1, IF b <= Len(s) THEN b ELSE Len(s))

\* s.split(sep) for a one-character sep
RECURSIVE split(_, _)
split(s, sep) ==
    LET hits == {i \in 1..Len(s) : s[i] = sep}
    IN  IF hits = {} THEN <<s>>
        ELSE LET i == Min(hits)
             IN  <<SubSeq(s, 1, i - 1)>> \o split(SubSeq(s, i + 1, Len(s)), sep)

(***************************************************************************)
(* get_qp_files_by_session(): the question papers of GridFS grouped by     *)
(* session label, labels in descending string order.                       *)
(***************************************************************************)
QP_TAG == <<"_", "q", "p", "_">>

month_map ==
    [c \in {"m", "s", "w"} |->
        IF c = "m" THEN <<"M", "a", "r", "c", "h">>
        ELSE IF c = "s" THEN <<"M", "a", "y", EN_DASH, "J", "u", "n", "e">>
        ELSE <<"O", "c", "t", EN_DASH, "N", "o", "v">>]

\* the year taken from the first two characters of the session code
session_year_head(session) == <<"2", "0">> \o slice(session, 0, 2)

\* year = "20" + session[1:3]
session_year(session) == <<"2", "0">> \o slice(session, 1, 3)

\* a fallback to the month code alone
session_month_code(session) ==
    LET month_code == lower(session[1])
    IN  IF month_code \in DOMAIN month_map THEN month_map[month_code]
        ELSE <<month_code>>

\* month = month_map.get(session[0].lower(), session)
session_month(session) ==
    LET month_code == lower(session[1])
    IN  IF month_code \in DOMAIN month_map THEN month_map[month_code]
        ELSE session

\* session_name = f"{year}-{month}"
session_name(session) == session_year(session) \o <<"-">> \o session_month(session)

\* the loop body without its test for "_qp_"
Filed_untagged(name) ==
    /\ Len(split(name, "_")) >= 3
    /\ Len(split(name, "_")[2]) >= 2

\* whether the loop body files the name, and under which label
Filed(name) ==
    /\ contains(name, QP_TAG)
    /\ Len(split(name, "_")) >= 3
    /\ Len(split(name, "_")[2]) >= 2

LabelOf(name) == session_name(split(name, "_")[2])

\* session_dict after the loop over fs.find(): label -> names in the order
\* GridFS lists them
session_dict(store) ==
    LET filed == {i \in DOMAIN store : Filed(store[i].filename)}
        labels == {LabelOf(store[i].filename) : i \in filed}
        names(label) == SelectSeq([i \in DOMAIN store |-> store[i].filename],
                                  LAMBDA n : Filed(n) /\ LabelOf(n) = label)
    IN  [label \in labels |-> names(label)]

\* the key an ascending sort puts first
first_key_ascending(d) ==
    CHOOSE k \in DOMAIN d : \A o \in DOMAIN d \ {k} : str_lt(k, o)

\* the key sorted(..., key=lambda x: x[0], reverse=True) puts first
first_key(d) ==
    CHOOSE k \in DOMAIN d : \A o \in DOMAIN d \ {k} : str_lt(o, k)

\* dict(sorted(session_dict.items(), key=lambda x: x[0], reverse=True))
RECURSIVE sorted_reverse(_)
sorted_reverse(d) ==
    IF DOMAIN d = {} THEN <<>>
    ELSE LET k == first_key(d)
         IN  <<[session |-> k, files |-> d[k]]>>
             \o sorted_reverse([o \in DOMAIN d \ {k} |-> d[o]])

\* the dict returned, as its items in order; {} when listing GridFS raises
get_qp_files_by_session(store, listing_ok) ==
    IF listing_ok THEN sorted_reverse(session_dict(store)) ELSE <<>>

(***************************************************************************)
(* The papers of the store.  File names follow                             *)
(* <code>_<session>_<qp|ms>_<paper>.pdf.                                   *)
(***************************************************************************)
PDF == <<".", "p", "d", "f">>

PaperName(session, kind, paper) ==
    <<"9", "7", "0", "2", "_">> \o session \o <<"_">> \o kind \o <<"_">>
        \o paper \o PDF

\* a file of GridFS: its name and who put it there
StoredFile(name, by) == [filename |-> name, by |-> by]

\* a lookup that never finds the file
find_one_absent(store, name) == FALSE

\* fs.find_one({"filename": name})
find_one(store, name) == \E i \in DOMAIN store : store[i].filename = name

QP == <<"q", "p">>

MS == <<"m", "s">>

\* the stored papers: question papers of the three mapped months, of an
\* unmapped letter, of an uppercase letter and of a session code too short
\* to file, and a marking scheme
BucketNames ==
    {PaperName(<<"m", "2", "4">>, QP, <<"2", "2">>),
     PaperName(<<"m", "2", "3">>, QP, <<"2", "2">>),
     PaperName(<<"s", "2", "3">>, QP, <<"1", "1">>),
     PaperName(<<"w", "2", "3">>, QP, <<"2", "2">>),
     PaperName(<<"x", "2", "4">>, QP, <<"2", "2">>),
     PaperName(<<"W", "2", "3">>, QP, <<"1", "2">>),
     PaperName(<<"s">>, QP, <<"2", "2">>),
     PaperName(<<"s", "2", "3">>, MS, <<"1", "1">>)}

BucketInit ==
    /\ fs \in UNION {[1..n -> {StoredFile(name, "other") : name \in BucketNames}] :
                       n \in 0..MaxStored}
    /\ SessionInit
    /\ active = {}
    /\ mongo_ok = TRUE
    /\ shown = "none"
    /\ clicks = 0
    /\ free_user = TRUE
    /\ outcome = NoOutcome
    /\ text = <<>>
    /\ q = <<>>
    /\ variant \in Variants
    /\ result = NoCall
    /\ tests = 0
    /\ IdleStore
    /\ IdleOther

\* a call get_qp_files_by_session()
GetQpFilesBySession(listing_ok) ==
    /\ ~sessions.called
    /\ sessions' = Listing(get_qp_files_by_session(fs, listing_ok), ~listing_ok)
    /\ UNCHANGED <<folder, papers_metadata, upload_log>>
    /\ UNCHANGED <<evars, svars>>
    /\ UNCHANGED ovars

BucketNext == \E listing_ok \in BOOLEAN : GetQpFilesBySession(listing_ok)

SpecBuckets == BucketInit /\ [][BucketNext]_vars

(***************************************************************************)
(* The session of one browser tab (app.py).                                *)
(***************************************************************************)
FreeLimit == 3

\* the limit applied one click early
FreeLimitReached_ge(count) == count >= FreeLimit

\* `st.session_state['search_count'] > 3`
FreeLimitReached(count) == count > FreeLimit

Emails == {"a@example.com", "b@example.com"}

\* the address the user of one session types
SessionEmails == {"a@example.com"}

Pages == {"home", "explainer", "subscription", "account"}

\* 9702_s23_qp_22.pdf, 9702_s23_ms_22.pdf, 9702_m24_qp_22.pdf and
\* 9702_m24_ms_22.pdf
QP1 == PaperName(<<"s", "2", "3">>, QP, <<"2", "2">>)
MS1 == PaperName(<<"s", "2", "3">>, MS, <<"2", "2">>)
QP2 == PaperName(<<"m", "2", "4">>, QP, <<"2", "2">>)
MS2 == PaperName(<<"m", "2", "4">>, MS, <<"2", "2">>)

\* the four papers in a fixed order, and the stores holding some of them
FileOrder == <<QP1, MS1, QP2, MS2>>

StoreOf(S) ==
    SelectSeq([i \in 1..Len(FileOrder) |-> StoredFile(FileOrder[i], "other")],
              LAMBDA f : f.filename \in S)

Files == {QP1, MS1, QP2, MS2}

QpFiles == {QP1, QP2}

\* selected_qp.replace("_qp_", "_ms_")
MsOf(qp) == IF qp = QP1 THEN MS1 ELSE MS2

\* extract_text(): the text layer of each stored paper; the second marking
\* scheme is a scan without a text layer
PaperText(name) ==
    IF name = QP1 THEN <<"3", " ", "x", NL, "4", " ", "x", NL>>
    ELSE IF name = MS1 THEN <<"3", " ", "x", NL>>
    ELSE IF name = QP2 THEN <<"3", " ", "x", NL>>
    ELSE <<>>

QuestionNumbers == {<<"3">>, <<"9">>, <<" ">>}

\* check_user_subscription(): the backend's answer, or no subscription when
\* the request fails
check_user_subscription(email, reachable, used) ==
    IF reachable
    THEN IF email \in active
         THEN [has_subscription |-> TRUE, searches_used |-> used,
               search_limit |-> 50]
         ELSE [has_subscription |-> FALSE]
    ELSE [has_subscription |-> FALSE]

\* searches_used in the backend's answer: none used, the whole limit used
BackendUsed == {0, 50}

\* the paper selectbox offers the names in the lists of
\* get_qp_files_by_session(): the stored names its loop files
offered(store, name) == find_one(store, name) /\ Filed(name)

\* get_pdf_file(): a path when GridFS holds the file
get_pdf_file(name) == mongo_ok /\ find_one(fs, name)

\* ask_llm(): the two blocks interpolated into the prompt, and what the
\* call returns
ask_llm(qp_text, ms_text, question_number, llm_ok) ==
    [question |-> _extract_block("app", qp_text, question_number).ret,
     answer   |-> _extract_block("app", ms_text, question_number).ret,
     reply    |-> IF llm_ok THEN "explanation" ELSE "AI Error"]

\* Python values of two types that never compare equal: a str and a list
PyNone == [type |-> "NoneType", value |-> <<>>]

PyStr(chars) == [type |-> "str", value |-> <<chars>>]

PyList(items) == [type |-> "list", value |-> items]

\* st.query_params.get(key): the value of the key in the URL as a str
query_params_get(key) ==
    IF key = "success" /\ success_param THEN PyStr("true") ELSE PyNone

\* `if st.query_params.get("success") == ["true"]:` of
\* render_subscription_page()
payment_success == query_params_get("success") = PyList(<<"true">>)

\* show_subscription_popup after a script run that renders this page
popup_after_render(page) ==
    IF page = "subscription" /\ payment_success
    THEN FALSE
    ELSE show_subscription_popup

Init ==
    /\ SessionInit
    /\ active \in SUBSET SessionEmails
    /\ mongo_ok \in BOOLEAN
    /\ fs \in {StoreOf(S) : S \in SUBSET Files}
    /\ IdleStore
    /\ shown = "none"
    /\ clicks = 0
    /\ free_user = TRUE
    /\ outcome = NoOutcome
    /\ text = <<>>
    /\ q = <<>>
    /\ variant = "app"
    /\ result = NoCall
    /\ tests = 0
    /\ IdleWebhook
    /\ success_param \in BOOLEAN
    /\ IdleTemp
    /\ IdleAdmin

\* render_navigation(): one of the four page buttons
Navigate(page) ==
    /\ current_page # page
    /\ current_page' = page
    /\ shown' = "none"
    /\ show_subscription_popup' = popup_after_render(page)
    /\ UNCHANGED <<search_count, locked, user_email,
                   active, mongo_ok, fs, clicks, free_user, outcome>>
    /\ UNCHANGED evars
    /\ UNCHANGED gvars
    /\ UNCHANGED ovars

\* render_subscription_page(): the email field keeps a non-empty entry
EnterEmailSubscription(email) ==
    /\ current_page = "subscription"
    /\ email # ""
    /\ user_email # email
    /\ user_email' = email
    /\ shown' = "none"
    /\ show_subscription_popup' = popup_after_render("subscription")
    /\ UNCHANGED <<search_count, locked, current_page,
                   active, mongo_ok, fs, clicks, free_user, outcome>>
    /\ UNCHANGED evars
    /\ UNCHANGED gvars
    /\ UNCHANGED ovars

\* render_account_page(): the email field is bound to user_email
EnterEmailAccount(email) ==
    /\ current_page = "account"
    /\ user_email # email
    /\ user_email' = email
    /\ shown' = "none"
    /\ UNCHANGED <<search_count, locked, show_subscription_popup, current_page,
                   active, mongo_ok, fs, clicks, free_user, outcome>>
    /\ UNCHANGED evars
    /\ UNCHANGED gvars
    /\ UNCHANGED ovars

\* the backend gains or loses a subscriber
BackendUpdate(email) ==
    /\ active' = IF email \in active THEN active \ {email} ELSE active \cup {email}
    /\ UNCHANGED <<search_count, locked, show_subscription_popup, user_email,
                   current_page, mongo_ok, fs, shown, clicks, free_user, outcome>>
    /\ UNCHANGED evars
    /\ UNCHANGED gvars
    /\ UNCHANGED ovars

\* render_explainer_page(): the Explain button is rendered when both PDFs of
\* the selected paper load
ExplainRendered(selected_qp) ==
    /\ current_page = "explainer"
    /\ mongo_ok
    /\ offered(fs, selected_qp)
    /\ get_pdf_file(selected_qp)
    /\ get_pdf_file(MsOf(selected_qp))

\* the gate, were it to refuse every click of a locked session
gate_refuses_locked(is_locked, has_sub) == is_locked

\* `if st.session_state['locked'] and not has_sub:`
gate_refuses(is_locked, has_sub) == is_locked /\ ~has_sub

\* render_explainer_page(): Explain pressed with a non-blank question number
ExplainClick(selected_qp, question_number, reachable, used, llm_ok) ==
    /\ ExplainRendered(selected_qp)
    /\ strip(question_number) # <<>>
    /\ clicks < MaxClicks
    /\ LET sub == IF user_email # ""
                  THEN check_user_subscription(user_email, reachable, used)
                  ELSE [has_subscription |-> FALSE]
           has_sub == sub.has_subscription
           count == IF has_sub THEN search_count ELSE search_count + 1
           limit == ~has_sub /\ FreeLimitReached(count)
           locked1 == IF limit THEN TRUE ELSE locked
           popup1 == IF limit THEN TRUE ELSE show_subscription_popup
           llm == ask_llm(PaperText(selected_qp), PaperText(MsOf(selected_qp)),
                          question_number, llm_ok)
       IN  /\ search_count' = count
           /\ locked' = locked1
           /\ show_subscription_popup' = popup1
           /\ IF gate_refuses(locked1, has_sub)
              THEN /\ shown' = "limit_warning"
                   /\ outcome' = [kind |-> "refused", warning |-> TRUE,
                                  sub |-> sub,
                                  popup |-> popup1, extracted |-> FALSE,
                                  llm |-> FALSE, question |-> <<>>,
                                  answer |-> <<>>]
              ELSE /\ shown' = llm.reply
                   /\ outcome' = [kind |-> "explained", warning |-> FALSE,
                                  sub |-> sub,
                                  popup |-> FALSE, extracted |-> TRUE,
                                  llm |-> TRUE, question |-> llm.question,
                                  answer |-> llm.answer]
    /\ clicks' = clicks + 1
    /\ free_user' = (free_user /\ ~(user_email # "" /\ user_email \in active))
    /\ UNCHANGED <<user_email, current_page, active, mongo_ok, fs>>
    /\ UNCHANGED evars
    /\ UNCHANGED gvars
    /\ UNCHANGED ovars

\* render_explainer_page(): Explain pressed with a blank question number
ExplainBlank(selected_qp, question_number) ==
    /\ ExplainRendered(selected_qp)
    /\ strip(question_number) = <<>>
    /\ shown # "none"
    /\ shown' = "none"
    /\ UNCHANGED <<search_count, locked, show_subscription_popup, user_email,
                   current_page, active, mongo_ok, fs, clicks, free_user,
                   outcome>>
    /\ UNCHANGED evars
    /\ UNCHANGED gvars
    /\ UNCHANGED ovars

Next ==
    \/ \E page \in Pages : Navigate(page)
    \/ \E email \in SessionEmails : EnterEmailSubscription(email)
    \/ \E email \in SessionEmails \cup {""} : EnterEmailAccount(email)
    \/ \E email \in SessionEmails : BackendUpdate(email)
    \/ \E selected_qp \in QpFiles, question_number \in QuestionNumbers,
          reachable \in BOOLEAN, used \in BackendUsed, llm_ok \in BOOLEAN :
         ExplainClick(selected_qp, question_number, reachable, used, llm_ok)
    \/ \E selected_qp \in QpFiles, question_number \in QuestionNumbers :
         ExplainBlank(selected_qp, question_number)

Spec == Init /\ [][Next]_vars

(***************************************************************************)
(* upload_pdfs_to_mongo(DATA_DIR), called while the script loads.          *)
(***************************************************************************)
\* the module-level statements of each script that matter here, in the
\* order the interpreter executes them
ModuleStatements(v) ==
    IF v = "app"
    THEN <<"def upload_pdfs_to_mongo", "upload_pdfs_to_mongo(DATA_DIR)",
           "main()">>
    ELSE <<"def upload_pdfs_to_mongo", "upload_pdfs_to_mongo(DATA_DIR)",
           "def save_paper_metadata", "main()">>

\* a global function name is bound while a statement runs when its def was
\* executed before that statement
bound_at(v, name, stmt) ==
    \E i \in DOMAIN ModuleStatements(v), j \in DOMAIN ModuleStatements(v) :
        /\ i < j
        /\ ModuleStatements(v)[i] = name
        /\ ModuleStatements(v)[j] = stmt

\* filename.lower()
lowered(s) == [i \in DOMAIN s |-> lower(s[i])]

\* what can go wrong with one file: nothing, fs.find_one raises, open() or
\* fs.put raises, papers_collection.update_one raises
FileOutcomes == {"ok", "find_raises", "put_raises", "update_raises"}

\* save_paper_metadata(): the records of papers_metadata afterwards; an
\* exception of update_one is reported and swallowed
save_paper_metadata(meta, filename, io) ==
    IF io = "update_raises" THEN meta ELSE meta \cup {filename}

\* the state of one run: GridFS, papers_metadata, the counter, the names
\* put and the names warned about
RunState(store, meta) ==
    [fs |-> store, meta |-> meta, uploaded |-> 0, stored |-> <<>>, warned |-> {}]

Warn(st, filename) == [st EXCEPT !.warned = st.warned \cup {filename}]

\* the body of the loop for one directory entry
upload_one(v, st, filename, io) ==
    IF ~endswith(lowered(filename), PDF) THEN st
    ELSE IF io = "find_raises" THEN Warn(st, filename)
    ELSE IF find_one(st.fs, filename) THEN st
    ELSE IF io = "put_raises" THEN Warn(st, filename)
    ELSE LET put == [st EXCEPT
                       !.fs = Append(st.fs, StoredFile(filename, "upload_pdfs_to_mongo")),
                       !.stored = Append(st.stored, filename)]
         IN  IF v = "app"
             THEN [put EXCEPT !.uploaded = put.uploaded + 1]
             ELSE IF bound_at(v, "def save_paper_metadata",
                              "upload_pdfs_to_mongo(DATA_DIR)")
                  THEN [put EXCEPT
                          !.meta = save_paper_metadata(put.meta, filename, io),
                          !.uploaded = put.uploaded + 1]
                  ELSE Warn(put, filename)

\* the loop over os.listdir(folder_path)
RECURSIVE upload_pdfs_to_mongo(_, _, _, _)
upload_pdfs_to_mongo(v, st, names, ios) ==
    IF names = <<>> THEN st
    ELSE upload_pdfs_to_mongo(v, upload_one(v, st, Head(names), Head(ios)),
                              Tail(names), Tail(ios))

UPPER_PDF == <<"A", ".", "P", "D", "F">>

NOTES_TXT == <<"n", ".", "t", "x", "t">>

\* directory entries: a paper, a PDF with an uppercase extension and a file
\* that is not a PDF
FolderNames == {QP1, UPPER_PDF, NOTES_TXT}

\* os.listdir(): distinct names in any order
Listings ==
    UNION {{l \in [1..n -> FolderNames] :
              \A i \in 1..n, j \in 1..n : i # j => l[i] # l[j]} :
           n \in 0..MaxFolder}

UploadInit ==
    /\ mongo_ok \in BOOLEAN
    /\ fs \in UNION {[1..n -> {StoredFile(name, "other") :
                                 name \in FolderNames \ {NOTES_TXT}}] :
                       n \in 0..(IF mongo_ok THEN MaxPreloaded ELSE 0)}
    /\ folder \in Listings
    /\ papers_metadata = {}
    /\ upload_log = <<>>
    /\ sessions = NoListing
    /\ variant \in Variants
    /\ SessionInit
    /\ active = {}
    /\ shown = "none"
    /\ clicks = 0
    /\ free_user = TRUE
    /\ outcome = NoOutcome
    /\ text = <<>>
    /\ q = <<>>
    /\ result = NoCall
    /\ tests = 0
    /\ IdleOther

\* one script run reaches `if _mongo_ok: upload_pdfs_to_mongo(DATA_DIR)`
UploadRun(ios) ==
    /\ mongo_ok
    /\ Len(upload_log) < MaxRuns
    /\ LET st == upload_pdfs_to_mongo(variant, RunState(fs, papers_metadata),
                                      folder, ios)
       IN  /\ fs' = st.fs
           /\ papers_metadata' = st.meta
           /\ upload_log' = Append(upload_log,
                                   [ret |-> st.uploaded, stored |-> st.stored,
                                    warned |-> st.warned, metadata |-> st.meta])
    /\ UNCHANGED <<folder, sessions>>
    /\ UNCHANGED evars
    /\ UNCHANGED <<search_count, locked, show_subscription_popup, user_email,
                   current_page, active, mongo_ok, shown, clicks, free_user,
                   outcome>>
    /\ UNCHANGED ovars

UploadNext ==
    \E ios \in [1..Len(folder) -> FileOutcomes] : UploadRun(ios)

SpecUpload == UploadInit /\ [][UploadNext]_vars

(***************************************************************************)
(* Stripe webhooks and the subscriptions collection (test_stripe.py).      *)
(***************************************************************************)
None == "None"

\* a document of the subscriptions collection
Subscription(email, plan, status, customer, used) ==
    [email |-> email, plan |-> plan, status |-> status,
     stripe_customer_id |-> customer, searches_used |-> used]

\* the first document for which a field has a value, or 0
first_match(subs, field, value) ==
    LET hits == {i \in DOMAIN subs : subs[i][field] = value}
    IN  IF hits = {} THEN 0 ELSE Min(hits)

\* update_one(filter, {"$set": fields}): the first matching document gets
\* the fields; no document is added
update_one(subs, field, value, fields) ==
    LET i == first_match(subs, field, value)
    IN  IF i = 0 THEN subs
        ELSE [subs EXCEPT ![i] =
                [k \in DOMAIN subs[i] |->
                    IF k \in DOMAIN fields THEN fields[k] ELSE subs[i][k]]]

\* update_one(..., upsert=True) of the checkout branch: a missing document
\* is inserted with the filter's email and the fields set
upsert_checkout(subs, email, plan, customer) ==
    IF first_match(subs, "email", email) = 0
    THEN Append(subs, Subscription(email, plan, "active", customer, 0))
    ELSE update_one(subs, "email", email,
                    [plan |-> plan, status |-> "active",
                     stripe_customer_id |-> customer, searches_used |-> 0])

\* `if not STRIPE_SECRET_KEY or not STRIPE_WEBHOOK_SECRET: return False`
keys_configured(env) == env.secret_key /\ env.webhook_secret

\* what stripe.Webhook.construct_event does with the payload and signature
Verifications == {"ok", "ValueError", "SignatureVerificationError"}

EventTypes ==
    {"checkout.session.completed", "invoice.payment_succeeded",
     "customer.subscription.deleted", "customer.created"}

\* session.get('metadata', {}).get('plan', 'basic')
event_plan(event) == IF event.plan = None THEN "basic" ELSE event.plan

\* the renewal branch, were it to re-activate the subscription as well
renewal_fields_reactivating == [searches_used |-> 0, status |-> "active"]

\* the fields the invoice.payment_succeeded branch sets
renewal_fields == [searches_used |-> 0]

WebhookResult(ret, subs) == [ret |-> ret, subs |-> subs]

\* handle_stripe_webhook(payload, signature): what it returns ("raised"
\* when an exception leaves it) and the collection afterwards
handle_stripe_webhook(env, ok, subs, event, verification, db_ok) ==
    IF ~keys_configured(env) THEN WebhookResult("False", subs)
    ELSE IF ~env.lib THEN WebhookResult("raised", subs)
    ELSE IF verification # "ok" THEN WebhookResult("False", subs)
    ELSE IF event.type = "checkout.session.completed"
    THEN IF ok /\ event.customer_email # None
         THEN IF db_ok
              THEN WebhookResult("True",
                       upsert_checkout(subs, event.customer_email,
                                       event_plan(event), event.customer))
              ELSE WebhookResult("raised", subs)
         ELSE WebhookResult("True", subs)
    ELSE IF event.type = "invoice.payment_succeeded"
    THEN IF ok /\ event.customer # None
         THEN IF db_ok
              THEN WebhookResult("True",
                       update_one(subs, "stripe_customer_id", event.customer,
                                  renewal_fields))
              ELSE WebhookResult("raised", subs)
         ELSE WebhookResult("True", subs)
    ELSE IF event.type = "customer.subscription.deleted"
    THEN IF ok /\ event.customer # None
         THEN IF db_ok
              THEN WebhookResult("True",
                       update_one(subs, "stripe_customer_id", event.customer,
                                  [status |-> "cancelled"]))
              ELSE WebhookResult("raised", subs)
         ELSE WebhookResult("True", subs)
    ELSE WebhookResult("True", subs)

\* every plan limited like the basic plan
plan_limit_flat(plan) == 50

\* plan_limits.get(plan, 50)
plan_limit(plan) ==
    IF plan = "basic" THEN 50
    ELSE IF plan = "plus" THEN 200
    ELSE IF plan = "pro" THEN 1000
    ELSE 50

NoSubscription == [has_subscription |-> FALSE]

\* check_user_subscription(email) of test_stripe.py
check_user_subscription_mongo(ok, subs, email, db_ok) ==
    IF ~ok \/ ~db_ok THEN NoSubscription
    ELSE LET i == first_match(subs, "email", email)
         IN  IF i = 0 THEN NoSubscription
             ELSE IF subs[i].status # "active" THEN NoSubscription
             ELSE [has_subscription |-> TRUE,
                   plan |-> subs[i].plan,
                   search_limit |-> plan_limit(subs[i].plan),
                   searches_used |-> subs[i].searches_used,
                   status |-> subs[i].status,
                   stripe_customer_id |-> subs[i].stripe_customer_id]

(***************************************************************************)
(* Webhook deliveries.  Stripe creates a customer for every completed      *)
(* checkout session, so each checkout event carries a customer id no       *)
(* earlier event carried.                                                  *)
(***************************************************************************)
CustomerIds == <<"cus_1", "cus_2", "cus_3", "cus_4", "cus_5">>

Plans == {"basic", "plus", "pro", "team"}

CheckoutEvents ==
    {[type |-> "checkout.session.completed", customer_email |-> e,
      plan |-> p, customer |-> CustomerIds[checkouts + 1]] :
        e \in Emails \cup {None}, p \in Plans \cup {None}}

CustomerEvents ==
    {[type |-> t, customer_email |-> None, plan |-> None, customer |-> c] :
        t \in EventTypes \ {"checkout.session.completed"},
        c \in {"cus_0", None} \cup {CustomerIds[i] : i \in 1..checkouts}}

WebhookInit ==
    /\ subscriptions \in
         {<<>>} \cup
         {<<Subscription("a@example.com", "pro", "active", "cus_0", 7)>>}
    /\ stripe_env \in [lib : BOOLEAN, secret_key : BOOLEAN,
                       webhook_secret : BOOLEAN]
    /\ mongo_ok \in BOOLEAN
    /\ last_webhook = NoWebhook
    /\ cancelled = {}
    /\ checkouts = 0
    /\ fs = <<>>
    /\ SessionInit
    /\ active = {}
    /\ shown = "none"
    /\ clicks = 0
    /\ free_user = TRUE
    /\ outcome = NoOutcome
    /\ text = <<>>
    /\ q = <<>>
    /\ variant = "test_stripe"
    /\ result = NoCall
    /\ tests = 0
    /\ IdleStore
    /\ success_param = FALSE
    /\ IdleTemp
    /\ IdleAdmin

\* Stripe (or anyone) posts a payload and a signature to the endpoint
Webhook(event, verification, db_ok) ==
    /\ event.type = "checkout.session.completed" => checkouts < MaxCheckouts
    /\ LET r == handle_stripe_webhook(stripe_env, mongo_ok, subscriptions,
                                      event, verification, db_ok)
           hit == first_match(subscriptions, "stripe_customer_id",
                              event.customer)
       IN  /\ subscriptions' = r.subs
           /\ last_webhook' =
                [type |-> event.type, customer_email |-> event.customer_email,
                 plan |-> event.plan, customer |-> event.customer,
                 verification |-> verification, ret |-> r.ret]
           /\ cancelled' =
                IF r.ret = "True" /\ mongo_ok /\ hit # 0
                   /\ event.type = "customer.subscription.deleted"
                THEN cancelled \cup {subscriptions[hit].email}
                ELSE IF r.ret = "True" /\ mongo_ok
                        /\ event.type = "checkout.session.completed"
                THEN cancelled \ {event.customer_email}
                ELSE cancelled
    /\ checkouts' = IF event.type = "checkout.session.completed"
                    THEN checkouts + 1 ELSE checkouts
    /\ UNCHANGED stripe_env
    /\ UNCHANGED <<evars, svars, gvars>>
    /\ UNCHANGED <<success_param, tvars, avars>>

WebhookNext ==
    \E event \in CheckoutEvents \cup CustomerEvents :
      \E verification \in Verifications :
        \E db_ok \in BOOLEAN :
          Webhook(event, verification, db_ok)

SpecWebhook == WebhookInit /\ [][WebhookNext]_vars

(***************************************************************************)
(* The admin pages of test_stripe.py: Upload Papers and Manage Content.    *)
(* GridFS gives every stored file an _id of its own and keeps any number   *)
(* of files under one filename.                                            *)
(***************************************************************************)
GridFile(id, filename) == [_id |-> id, filename |-> filename]

PaperDoc(filename, file_id, version) ==
    [filename |-> filename, file_id |-> file_id, version |-> version]

\* fs.put(data, filename=name)
fs_put(store, id, name) == Append(store, GridFile(id, name))

\* fs.delete(file_id)
fs_delete(store, id) == SelectSeq(store, LAMBDA f : f._id # id)

\* the first document of papers_collection with the filename, or 0
paper_of(docs, filename) ==
    LET hits == {i \in DOMAIN docs : docs[i].filename = filename}
    IN  IF hits = {} THEN 0 ELSE Min(hits)

\* save_paper_metadata(filename, file_id, ...): upsert of the whole record
save_paper_record(docs, filename, file_id, io) ==
    IF io = "metadata_raises" THEN docs
    ELSE IF paper_of(docs, filename) = 0
    THEN Append(docs, PaperDoc(filename, file_id, 1))
    ELSE [docs EXCEPT ![paper_of(docs, filename)] =
            PaperDoc(filename, file_id, 1)]

\* update_paper_version(filename, new_file_id)
update_paper_version(docs, filename, new_file_id, io) ==
    IF io = "metadata_raises" THEN docs
    ELSE IF paper_of(docs, filename) # 0
    THEN [docs EXCEPT ![paper_of(docs, filename)] =
            PaperDoc(filename, new_file_id, @.version + 1)]
    ELSE save_paper_record(docs, filename, new_file_id, io)

UploadOutcomes == {"ok", "put_raises", "metadata_raises"}

DeleteOutcomes == {"ok", "delete_raises", "delete_one_raises"}

AdminState(store, docs) == [fs |-> store, papers |-> docs]

\* the loop body of render_upload_interface() for one uploaded file
admin_upload(store, docs, id, name, io) ==
    IF io = "put_raises" THEN AdminState(store, docs)
    ELSE IF find_one(store, name)
    THEN AdminState(fs_put(store, id, name),
                    update_paper_version(docs, name, id, io))
    ELSE AdminState(fs_put(store, id, name),
                    save_paper_record(docs, name, id, io))

\* the Delete button of render_content_management() for one listed paper
admin_delete(store, docs, paper, io) ==
    IF io = "delete_raises" THEN AdminState(store, docs)
    ELSE IF io = "delete_one_raises"
    THEN AdminState(fs_delete(store, paper.file_id), docs)
    ELSE AdminState(fs_delete(store, paper.file_id),
                    SelectSeq(docs, LAMBDA d : d.filename # paper.filename))

\* get_pdf_file(filename) of test_stripe.py returns a path
get_pdf_file_admin(store, name) == mongo_ok /\ find_one(store, name)

\* the filenames in the lists get_qp_files_by_session() returns
listed_names(store) ==
    LET items == get_qp_files_by_session(store, TRUE)
    IN  UNION {{items[i].files[j] : j \in DOMAIN items[i].files} :
                 i \in DOMAIN items}

AdminNames == {QP1, QP2}

\* the store as a startup run of upload_pdfs_to_mongo leaves it: the file
\* in GridFS, no record in papers_collection
AdminInit ==
    /\ gridfs \in {<<>>, <<GridFile(1, QP1)>>}
    /\ papers = <<>>
    /\ puts = Len(gridfs)
    /\ mongo_ok = TRUE
    /\ fs = <<>>
    /\ SessionInit
    /\ active = {}
    /\ shown = "none"
    /\ clicks = 0
    /\ free_user = TRUE
    /\ outcome = NoOutcome
    /\ text = <<>>
    /\ q = <<>>
    /\ variant = "test_stripe"
    /\ result = NoCall
    /\ tests = 0
    /\ IdleStore
    /\ IdleWebhook
    /\ success_param = FALSE
    /\ IdleTemp

\* Upload Papers pressed with one file chosen
AdminUpload(name, io) ==
    /\ puts < MaxPuts
    /\ LET st == admin_upload(gridfs, papers, puts + 1, name, io)
       IN  /\ gridfs' = st.fs
           /\ papers' = st.papers
    /\ puts' = IF io = "put_raises" THEN puts ELSE puts + 1
    /\ UNCHANGED <<evars, svars, gvars>>
    /\ UNCHANGED <<wvars, success_param, tvars>>

\* Delete pressed in the expander of a paper Manage Content lists
AdminDelete(i, io) ==
    /\ i \in DOMAIN papers
    /\ LET st == admin_delete(gridfs, papers, papers[i], io)
       IN  /\ gridfs' = st.fs
           /\ papers' = st.papers
    /\ UNCHANGED puts
    /\ UNCHANGED <<evars, svars, gvars>>
    /\ UNCHANGED <<wvars, success_param, tvars>>

AdminNext ==
    \/ \E name \in AdminNames, io \in UploadOutcomes : AdminUpload(name, io)
    \/ \E i \in 1..MaxPuts, io \in DeleteOutcomes : AdminDelete(i, io)

SpecAdmin == AdminInit /\ [][AdminNext]_vars

(***************************************************************************)
(* The temporary PDFs of app.py.  Each browser session runs the script in  *)
(* a thread of its own; all of them write TEMP_DIR/<filename>.  A step is  *)
(* one file-system operation of one session.                               *)
(***************************************************************************)
Viewers == 1..MaxViewers

TempNames == {QP1, QP2}

\* a session between script runs, and what its last read of a path found
Idle(read) == [pc |-> "idle", name |-> <<>>, read |-> read]

TempInit ==
    /\ temp_files = [n \in TempNames |-> "absent"]
    /\ fetch = [s \in Viewers |-> Idle("none")]
    /\ mongo_ok = TRUE
    /\ fs = StoreOf(TempNames)
    /\ SessionInit
    /\ active = {}
    /\ shown = "none"
    /\ clicks = 0
    /\ free_user = TRUE
    /\ outcome = NoOutcome
    /\ text = <<>>
    /\ q = <<>>
    /\ variant = "app"
    /\ result = NoCall
    /\ tests = 0
    /\ IdleStore
    /\ IdleWebhook
    /\ success_param = FALSE
    /\ IdleAdmin

\* get_pdf_file(): fs.find_one finds the file and open(path, "wb") creates
\* the temporary file or truncates the one that is there
OpenTemp(s, n) ==
    /\ fetch[s].pc = "idle"
    /\ get_pdf_file(n)
    /\ temp_files' = [temp_files EXCEPT ![n] = "empty"]
    /\ fetch' = [fetch EXCEPT ![s] = [pc |-> "opened", name |-> n,
                                      read |-> @.read]]
    /\ UNCHANGED <<evars, svars, gvars>>
    /\ UNCHANGED <<wvars, success_param, avars>>

\* get_pdf_file(): f.write(file.read()), the file is closed and the path
\* returned
WriteTemp(s) ==
    /\ fetch[s].pc = "opened"
    /\ temp_files' = [temp_files EXCEPT ![fetch[s].name] = "complete"]
    /\ fetch' = [fetch EXCEPT ![s].pc = "returned"]
    /\ UNCHANGED <<evars, svars, gvars>>
    /\ UNCHANGED <<wvars, success_param, avars>>

\* file_info(), the download button or extract_text() reads the path
ReadTemp(s) ==
    /\ fetch[s].pc = "returned"
    /\ fetch' = [fetch EXCEPT ![s] = Idle(temp_files[fetch[s].name])]
    /\ UNCHANGED temp_files
    /\ UNCHANGED <<evars, svars, gvars>>
    /\ UNCHANGED <<wvars, success_param, avars>>

TempNext ==
    \/ \E s \in Viewers, n \in TempNames : OpenTemp(s, n)
    \/ \E s \in Viewers : WriteTemp(s)
    \/ \E s \in Viewers : ReadTemp(s)

SpecTemp == TempInit /\ [][TempNext]_vars

(***************************************************************************)
(* Vocabulary of the properties: the lines of a text, read off the text    *)
(* without any pattern matching.                                           *)
(***************************************************************************)
AllBlank(s) == \A i \in 1..Len(s) : IsSpace(s[i])

RECURSIVE DropLeading(_)
DropLeading(s) ==
    IF s # <<>> /\ IsSpace(Head(s)) THEN DropLeading(Tail(s)) ELSE s

RECURSIVE DropTrailing(_)
DropTrailing(s) ==
    IF s # <<>> /\ IsSpace(s[Len(s)])
    THEN DropTrailing(SubSeq(s, 1, Len(s) - 1))
    ELSE s

Trimmed(s) == DropTrailing(DropLeading(s))

HasPrefix(s, pre) == Len(pre) <= Len(s) /\ SubSeq(s, 1, Len(pre)) = pre

\* positions at which a line of s starts
LineStarts(s) == {p \in 0..(Len(s) - 1) : p = 0 \/ s[p] = NL}

\* position of the newline that ends the line starting at p, or the end of s
LineStop(s, p) == Min({i \in p..Len(s) : i = Len(s) \/ s[i + 1] = NL})

LineBody(s, p) == SubSeq(s, p + 1, LineStop(s, p))

\* the line at p begins, after optional leading whitespace, with label
LineBeginsWith(s, p, label) == HasPrefix(DropLeading(LineBody(s, p)), label)

\* the line at p is label-shaped: optional whitespace, digits, optional
\* (letter) groups, optional (roman) groups, then a word boundary
LabelShapedLine(s, p) ==
    LET t == DropLeading(LineBody(s, p))
    IN  \E d \in AfterDigits(t, 0) :
          \E g \in AfterLetterGroups(t, d) :
            \E r \in AfterRomanGroups(t, g) :
              WordBoundary(t, r)

\* lines that begin with the label, as the call trims it
LabelLines(s, label) ==
    {p \in LineStarts(s) : LineBeginsWith(s, p, Trimmed(label))}

\* label-shaped lines after the line at p
LaterLabels(s, p) ==
    {b \in LineStarts(s) : b > p /\ LabelShapedLine(s, b)}

Called == result # NoCall

Found == Called /\ result.m = "Match"

Str_3x == <<"3", " ", "x">>

(***************************************************************************)
(* C1.  For a non-blank text and a non-blank label: when L is the first    *)
(* line that begins, after optional whitespace, with the label and B is    *)
(* the first later label-shaped line, the call returns the text from L up  *)
(* to but excluding B, trimmed.                                            *)
(***************************************************************************)
C1_BlockUpToNextLabel ==
    (Called /\ ~AllBlank(text) /\ ~AllBlank(q) /\ LabelLines(text, q) # {}) =>
        LET L == Min(LabelLines(text, q))
        IN  LaterLabels(text, L) # {} =>
              /\ ~result.exc
              /\ result.ret = Trimmed(SubSeq(text, L + 1, Min(LaterLabels(text, L))))

\* '3 Explain motion.\nMore detail.\n4 Next question.\n' with label '3'
C1_Witness ==
    /\ Called
    /\ text = Str_3x \o <<NL, "x", NL, "4", " ", "x", NL>>
    /\ q = <<"3">>
    /\ result.ret = Str_3x \o <<NL, "x">>

(***************************************************************************)
(* C2.  When some line begins with the label and no label-shaped line      *)
(* follows it, the call returns the text from that line to the end of the  *)
(* text, trimmed, also when the label line is the last line of the text.   *)
(***************************************************************************)
C2_EndOfTextStops ==
    (Called /\ ~AllBlank(q) /\ LabelLines(text, q) # {}) =>
        LET L == Min(LabelLines(text, q))
        IN  LaterLabels(text, L) = {} =>
              /\ ~result.exc
              /\ result.ret = Trimmed(SubSeq(text, L + 1, Len(text)))

(***************************************************************************)
(* C4.  The call never raises, whatever the text and the label, and a      *)
(* search that fails is reported by one of the two not-found markers.      *)
(***************************************************************************)
C4_NeverRaises ==
    Called =>
        /\ ~result.exc
        /\ result.m # "Match" =>
             result.ret \in {NotFoundEmpty(variant), NotFound(variant)}

C4_Witness ==
    /\ Called
    /\ q = <<"(">>
    /\ ~AllBlank(text)
    /\ ~result.exc
    /\ result.ret = NotFound(variant)

(***************************************************************************)
(* C5.  An empty or all-whitespace text gives the empty-input marker for   *)
(* every label, and no search is attempted.                                *)
(***************************************************************************)
C5_BlankText ==
    (Called /\ AllBlank(text)) =>
        result = [exc |-> FALSE, ret |-> NotFoundEmpty(variant), m |-> "unsearched"]

C5_Witness ==
    /\ Called
    /\ text = <<" ", NL>>
    /\ result.ret = NotFoundEmpty(variant)

(***************************************************************************)
(* C6.  For a non-blank text in which no line begins, after optional       *)
(* whitespace, with the label, the call returns the no-match marker, which *)
(* differs from the empty-input marker.                                    *)
(***************************************************************************)
C6_NoMatch ==
    (Called /\ ~AllBlank(text) /\ LabelLines(text, q) = {}) =>
        /\ ~result.exc
        /\ result.ret = NotFound(variant)
        /\ NotFound(variant) # NotFoundEmpty(variant)

C6_Witness ==
    /\ Called
    /\ text = <<"x", NL>>
    /\ q = <<"3">>
    /\ result.ret = NotFound(variant)

(***************************************************************************)
(* C7.  A found block is never equal to the empty-input marker nor to the  *)
(* no-match marker.                                                        *)
(***************************************************************************)
C7_Distinguishable ==
    Found => result.ret \notin {NotFoundEmpty(variant), NotFound(variant)}

(***************************************************************************)
(* C8 as stated.  The block starts at a line that begins with exactly the  *)
(* characters of the label as supplied.                                    *)
(***************************************************************************)
C8_VerbatimAsSupplied ==
    Found => HasPrefix(result.ret, q)

(***************************************************************************)
(* C8 amended.  The block starts at a line that begins, after optional     *)
(* whitespace, with exactly the characters of the label once its           *)
(* surrounding whitespace is trimmed; metacharacters in it are literals.   *)
(***************************************************************************)
C8_VerbatimTrimmed ==
    Found =>
        /\ HasPrefix(result.ret, Trimmed(q))
        /\ \E p \in LabelLines(text, q) :
             HasPrefix(result.ret, Trimmed(LineBody(text, p)))

C8_Witness ==
    /\ Found
    /\ q = <<"3", "(", "a", ")">>
    /\ HasPrefix(result.ret, q)

(***************************************************************************)
(* C9.  Where a block stops depends on the text alone: it runs from a line *)
(* start to the first later label-shaped line, or to the end of the text,  *)
(* whatever label was requested; label '3' on '3 Intro line.\n3(a) Sub     *)
(* part.\n' gives '3 Intro line.'.                                         *)
(***************************************************************************)
NextStop(s, a) == Min(LaterLabels(s, a) \cup {Len(s)})

C9_Example ==
    /\ text = Str_3x \o <<NL, "3", "(", "a", ")", " ", "x", NL>>
    /\ q = <<"3">>

C9_BoundaryIgnoresLabel ==
    /\ Found =>
         \E a \in LineStarts(text) :
           result.ret = Trimmed(SubSeq(text, a + 1, NextStop(text, a)))
    /\ (Called /\ C9_Example) => result.ret = Str_3x

C9_Witness ==
    /\ Found
    /\ C9_Example
    /\ result.ret = Str_3x

(***************************************************************************)
(* C10.  The label is matched as a prefix: the first line that begins with *)
(* the label starts the block even when a digit follows the label in that  *)
(* line; label '3' on '30 Thirty.\n3 Three.\n4 Four.\n' gives the block of *)
(* the '30' line.                                                          *)
(***************************************************************************)
DigitFollowsLabel(s, p, label) ==
    LET t == DropLeading(LineBody(s, p))
        n == Len(Trimmed(label))
    IN  Len(t) > n /\ t[n + 1] \in Digits

C10_PrefixMatch ==
    (Called /\ ~AllBlank(q) /\ LabelLines(text, q) # {}) =>
        LET L == Min(LabelLines(text, q))
        IN  (DigitFollowsLabel(text, L, q) /\ LaterLabels(text, L) # {}) =>
              /\ Found
              /\ HasPrefix(result.ret, Trimmed(LineBody(text, L)))

C10_Witness ==
    /\ Found
    /\ text = <<"3", "0", " ", "x", NL>> \o Str_3x \o <<NL, "4", " ", "x", NL>>
    /\ q = <<"3">>
    /\ result.ret = <<"3", "0", " ", "x">>

(***************************************************************************)
(* C3.  While the user has no active subscription, the first three         *)
(* effective Explain clicks of the session are explained, and every later  *)
(* one is refused with the free-limit warning and the subscription popup,  *)
(* without text extraction or LLM call.                                    *)
(***************************************************************************)
C3_FreeLimit ==
    (clicks >= 1 /\ free_user) =>
        IF clicks <= 3
        THEN /\ outcome.kind = "explained"
             /\ outcome.extracted
             /\ outcome.llm
        ELSE /\ outcome.kind = "refused"
             /\ outcome.warning
             /\ outcome.popup
             /\ ~outcome.extracted
             /\ ~outcome.llm

C3_Witness ==
    /\ free_user
    /\ clicks = 4
    /\ outcome.kind = "refused"
    /\ show_subscription_popup

(***************************************************************************)
(* C11.  Lines whose label carries an uppercase sub-part, such as '3(B)'.  *)
(***************************************************************************)
\* the line at p begins, after optional whitespace, with digits and an
\* uppercase letter in parentheses
UpperSubPartLine(s, p) ==
    LET t == DropLeading(LineBody(s, p))
    IN  \E d \in AfterDigits(t, 0) :
          /\ d + 3 <= Len(t)
          /\ t[d + 1] = "("
          /\ t[d + 2] \in UpperLetters
          /\ t[d + 3] = ")"

\* uppercase sub-part lines after the line at p
LaterUpper(s, p) == {u \in LineStarts(s) : u > p /\ UpperSubPartLine(s, u)}

\* C11 as stated: a line with an uppercase sub-part is not a boundary, so
\* a found block whose first line L is followed by such a line U, with no
\* other label-shaped line in between, continues through U.
C11_UppercaseNotBoundary ==
    (Found /\ ~AllBlank(q) /\ LabelLines(text, q) # {}) =>
        LET L == Min(LabelLines(text, q))
        IN  LaterUpper(text, L) # {} =>
              LET U == Min(LaterUpper(text, L))
              IN  Min(LaterLabels(text, L) \cup {U}) = U =>
                    Len(result.ret) > Len(Trimmed(SubSeq(text, L + 1, U)))

\* C11, amended: a line with an uppercase sub-part is a boundary like any
\* line whose leading digits end at a word boundary: a block whose first
\* line L is followed by such a line U is found and stops at or before U.
C11_UppercaseIsBoundary ==
    (Called /\ ~AllBlank(q) /\ LabelLines(text, q) # {}) =>
        LET L == Min(LabelLines(text, q))
        IN  LaterUpper(text, L) # {} =>
              /\ Found
              /\ HasPrefix(Trimmed(SubSeq(text, L + 1, Min(LaterUpper(text, L)))),
                           result.ret)

\* '3 x\n3(B) x\n4 x\n' with label '3': the block is '3 x'
C11_Witness ==
    /\ Found
    /\ text = Str_3x \o <<NL, "3", "(", "B", ")", " ", "x", NL, "4", " ", "x", NL>>
    /\ q = <<"3">>
    /\ result.ret = Str_3x

(***************************************************************************)
(* Vocabulary of the properties about the session listing.                 *)
(***************************************************************************)
Listed == sessions.called /\ ~sessions.raised

Stored(name) == \E i \in DOMAIN fs : fs[i].filename = name

\* the labels of the buckets that list the name
LabelsHolding(name) ==
    {sessions.items[b].session :
        b \in {b \in DOMAIN sessions.items :
                 \E i \in DOMAIN sessions.items[b].files :
                   sessions.items[b].files[i] = name}}

\* the name is 9702_<l><d><d>_qp_<d><d>.pdf for a letter l and digits d
SchemeName(name) ==
    /\ Len(name) = 18
    /\ name[6] \in LowerLetters \cup UpperLetters
    /\ {name[7], name[8], name[13], name[14]} \subseteq Digits
    /\ name = PaperName(<<name[6], name[7], name[8]>>, QP, <<name[13], name[14]>>)

Str_March == <<"M", "a", "r", "c", "h">>
Str_MayJune == <<"M", "a", "y", EN_DASH, "J", "u", "n", "e">>
Str_OctNov == <<"O", "c", "t", EN_DASH, "N", "o", "v">>

MonthNamed(letter) ==
    IF letter = "m" THEN Str_March
    ELSE IF letter = "s" THEN Str_MayJune
    ELSE Str_OctNov

Year20(d1, d2) == <<"2", "0", d1, d2, "-">>

Name_m24 == <<"9", "7", "0", "2", "_", "m", "2", "4", "_", "q", "p", "_",
              "2", "2", ".", "p", "d", "f">>

Name_s23 == <<"9", "7", "0", "2", "_", "s", "2", "3", "_", "q", "p", "_",
              "1", "1", ".", "p", "d", "f">>

(***************************************************************************)
(* C13.  A stored question paper <code>_<l><YY>_qp_<n>.pdf with l one of   *)
(* m, s, w is listed under exactly the label 20YY-March, 20YY-May-June or  *)
(* 20YY-Oct-Nov (the month names with an en dash): 9702_m24_qp_22.pdf      *)
(* under 2024-March, 9702_s23_qp_11.pdf under 2023-May-June.               *)
(***************************************************************************)
C13_SessionLabel ==
    Listed =>
        /\ \A i \in DOMAIN fs :
             LET name == fs[i].filename
             IN  (SchemeName(name) /\ name[6] \in {"m", "s", "w"}) =>
                   LabelsHolding(name) =
                       {Year20(name[7], name[8]) \o MonthNamed(name[6])}
        /\ Stored(Name_m24) =>
             LabelsHolding(Name_m24) = {<<"2", "0", "2", "4", "-">> \o Str_March}
        /\ Stored(Name_s23) =>
             LabelsHolding(Name_s23) = {<<"2", "0", "2", "3", "-">> \o Str_MayJune}

C13_Witness ==
    /\ Listed
    /\ Stored(Name_m24)
    /\ Stored(Name_s23)
    /\ LabelsHolding(Name_m24) = {<<"2", "0", "2", "4", "-">> \o Str_March}
    /\ LabelsHolding(Name_s23) = {<<"2", "0", "2", "3", "-">> \o Str_MayJune}

(***************************************************************************)
(* C14.  Session codes whose first character is not m, s or w.             *)
(***************************************************************************)
\* C14 as stated: the first character of such a session code stands in the
\* label where the month name would be.
C14_FirstCharPassedThrough ==
    Listed =>
        \A i \in DOMAIN fs :
          LET name == fs[i].filename
          IN  (SchemeName(name) /\ name[6] \notin {"m", "s", "w"}) =>
                LabelsHolding(name) = {Year20(name[7], name[8]) \o <<name[6]>>}

\* C14, amended: when the first character is not m, s or w in either case,
\* the whole session code, as spelled in the file name, stands in the label
\* where the month name would be.
C14_SessionCodePassedThrough ==
    Listed =>
        \A i \in DOMAIN fs :
          LET name == fs[i].filename
          IN  (SchemeName(name) /\ name[6] \notin {"m", "s", "w", "M", "S", "W"}) =>
                LabelsHolding(name) =
                    {Year20(name[7], name[8]) \o <<name[6], name[7], name[8]>>}

\* 9702_x24_qp_22.pdf is listed under 2024-x24
C14_Witness ==
    /\ Listed
    /\ \E b \in DOMAIN sessions.items :
         /\ sessions.items[b].session = <<"2", "0", "2", "4", "-", "x", "2", "4">>
         /\ sessions.items[b].files =
              << <<"9", "7", "0", "2", "_", "x", "2", "4", "_", "q", "p", "_",
                   "2", "2", ".", "p", "d", "f">> >>

(***************************************************************************)
(* C18.  The buckets are listed newest first: a bucket of a later year     *)
(* precedes every bucket of an earlier year, and within one year Oct-Nov   *)
(* precedes May-June, which precedes March.                                *)
(***************************************************************************)
DigitValue(c) == CHOOSE n \in 0..9 : <<"0", "1", "2", "3", "4", "5", "6", "7", "8", "9">>[n + 1] = c

HasYear(label) ==
    /\ Len(label) >= 5
    /\ \A i \in 1..4 : label[i] \in Digits
    /\ label[5] = "-"

YearOf(label) ==
    1000 * DigitValue(label[1]) + 100 * DigitValue(label[2])
        + 10 * DigitValue(label[3]) + DigitValue(label[4])

MonthRank(label) ==
    LET month == SubSeq(label, 6, Len(label))
    IN  IF month = Str_OctNov THEN 3
        ELSE IF month = Str_MayJune THEN 2
        ELSE IF month = Str_March THEN 1
        ELSE 0

C18_NewestFirst ==
    Listed =>
        \A i \in DOMAIN sessions.items, j \in DOMAIN sessions.items :
          LET a == sessions.items[i].session
              b == sessions.items[j].session
          IN  (i < j /\ HasYear(a) /\ HasYear(b)) =>
                /\ YearOf(a) >= YearOf(b)
                /\ (YearOf(a) = YearOf(b) /\ MonthRank(a) > 0 /\ MonthRank(b) > 0)
                      => MonthRank(a) > MonthRank(b)

\* 2024-March, then 2023-Oct-Nov, then 2023-May-June
C18_Witness ==
    /\ Listed
    /\ Len(sessions.items) = 3
    /\ sessions.items[1].session = <<"2", "0", "2", "4", "-">> \o Str_March
    /\ sessions.items[2].session = <<"2", "0", "2", "3", "-">> \o Str_OctNov
    /\ sessions.items[3].session = <<"2", "0", "2", "3", "-">> \o Str_MayJune

(***************************************************************************)
(* C15.  No Explain click ends with an explanation from the LLM when the   *)
(* block extracted from the marking scheme is a not-found marker: the      *)
(* not-found outcome is detected before or instead of the LLM call.        *)
(***************************************************************************)
C15_NotFoundDetected ==
    (outcome.llm /\ shown = "explanation") =>
        outcome.answer \notin {NotFound("app"), NotFoundEmpty("app")}

(***************************************************************************)
(* C17.  The search is a single linear scan of the text: it evaluates its  *)
(* stop test at most once for each position of the text, so the work of a  *)
(* call is bounded by the length of the text.                              *)
(***************************************************************************)
C17_LinearScan == Called => tests <= Len(text) + 1

(***************************************************************************)
(* Vocabulary of the properties about upload runs.                         *)
(***************************************************************************)
ByUpload(i) == fs[i].by = "upload_pdfs_to_mongo"

\* no file put by the function has the name of a file stored before it
PutOnlyIfAbsent ==
    \A i \in DOMAIN fs :
      ByUpload(i) => \A j \in 1..(i - 1) : fs[j].filename # fs[i].filename

\* at most one file per filename was put by the function
OnePerFilename ==
    \A i \in DOMAIN fs, j \in DOMAIN fs :
      (ByUpload(i) /\ ByUpload(j) /\ fs[i].filename = fs[j].filename) => i = j

StoresNothing(run) == run.stored = <<>> /\ run.ret = 0

C20_StoredHasMetadata ==
    variant = "test_stripe" =>
        \A k \in DOMAIN upload_log :
          /\ \A i \in DOMAIN upload_log[k].stored :
               upload_log[k].stored[i] \in upload_log[k].metadata
          /\ upload_log[k].ret = Len(upload_log[k].stored)

(***************************************************************************)
(* Vocabulary of the properties about subscriptions.                       *)
(***************************************************************************)
CHECKOUT == "checkout.session.completed"

INVOICE == "invoice.payment_succeeded"

DELETED == "customer.subscription.deleted"

\* what check_user_subscription(email) returns now, the database answering
Check(email) ==
    check_user_subscription_mongo(mongo_ok, subscriptions, email, TRUE)

\* the latest webhook call processed a verified event of this type
Processed(type) ==
    /\ last_webhook.type = type
    /\ last_webhook.ret = "True"
    /\ mongo_ok

\* the monthly limits the plans are documented to have
DocumentedLimit(plan) ==
    CASE plan = "basic" -> {50}
      [] plan = "plus"  -> {200}
      [] plan = "pro"   -> {1000}
      [] OTHER          -> Nat

\* C21: right after a verified checkout.session.completed event carrying
\* customer_email e and metadata plan p is processed with the database
\* reachable, check_user_subscription(e) reports has_subscription true,
\* plan p, searches_used 0 and the limit 50, 200 or 1000 of basic, plus, pro
C21_CheckoutActivates ==
    (/\ Processed(CHECKOUT)
     /\ last_webhook.customer_email # None
     /\ last_webhook.plan # None)
    => /\ Check(last_webhook.customer_email).has_subscription
       /\ Check(last_webhook.customer_email).plan = last_webhook.plan
       /\ Check(last_webhook.customer_email).searches_used = 0
       /\ Check(last_webhook.customer_email).search_limit
            \in DocumentedLimit(last_webhook.plan)

\* a checkout for the plus plan was processed for an address that had a
\* document before any checkout
C21_Witness ==
    /\ Processed(CHECKOUT)
    /\ last_webhook.customer_email = "a@example.com"
    /\ last_webhook.plan = "plus"
    /\ checkouts = 1
    /\ Len(subscriptions) = 1
    /\ Check("a@example.com").search_limit = 200

\* a step that is an invoice.payment_succeeded call changing the collection
RenewalStep ==
    /\ last_webhook'.type = INVOICE
    /\ subscriptions' # subscriptions

\* the step changed no field of any document but searches_used
OnlySearchesUsedReset ==
    /\ Len(subscriptions') = Len(subscriptions)
    /\ \A i \in DOMAIN subscriptions :
         subscriptions'[i] = [subscriptions[i] EXCEPT !.searches_used = 0]

\* C22: a subscriber cancelled by customer.subscription.deleted has
\* has_subscription false in every later state until a checkout for their
\* email is processed, and an invoice.payment_succeeded event only resets
\* searches_used
C22_CancelledUntilCheckout ==
    /\ [](\A e \in cancelled : ~Check(e).has_subscription)
    /\ [][RenewalStep => OnlySearchesUsedReset]_vars

\* an invoice event was processed for the customer of a cancelled subscriber
C22_Witness ==
    /\ Processed(INVOICE)
    /\ \E i \in DOMAIN subscriptions :
         /\ subscriptions[i].email \in cancelled
         /\ subscriptions[i].stripe_customer_id = last_webhook.customer
         /\ subscriptions[i].searches_used = 0

\* the step is a webhook call that fails verification or finds a secret
\* not configured
RejectedCall ==
    /\ vars' # vars
    /\ \/ last_webhook'.verification # "ok"
       \/ ~stripe_env.secret_key
       \/ ~stripe_env.webhook_secret

\* C23: a webhook call whose payload or signature fails verification, or
\* that arrives while a secret is not configured, returns False and leaves
\* the subscriptions collection unchanged
C23_RejectedCallReturnsFalse ==
    [][RejectedCall =>
         /\ last_webhook'.ret = "False"
         /\ subscriptions' = subscriptions]_vars

\* the same, where the stripe library was imported
C23_RejectedWithLibrary ==
    [][(RejectedCall /\ stripe_env.lib) =>
         /\ last_webhook'.ret = "False"
         /\ subscriptions' = subscriptions]_vars

(***************************************************************************)
(* Vocabulary of the properties about the session's gate.                  *)
(***************************************************************************)
\* a script run that renders the subscription page under ?success=true
PaymentSuccessRun ==
    /\ success_param
    /\ current_page' = "subscription"
    /\ \/ current_page # "subscription"
       \/ user_email' # user_email

LockedOnlyPastLimit == locked => search_count > 3

NeverUnlocked == (locked => locked') /\ search_count' >= search_count

\* C24: locked implies search_count > 3 in every reachable state, no step
\* sets locked back to False or decreases search_count, and the script run
\* of a payment-success redirect clears show_subscription_popup and nothing
\* else
C24_LockPermanent ==
    /\ []LockedOnlyPastLimit
    /\ [][NeverUnlocked]_vars
    /\ [][PaymentSuccessRun =>
            /\ ~show_subscription_popup'
            /\ locked' = locked
            /\ search_count' = search_count]_vars

\* the first two parts of C24
C24_LockNeverReleased == []LockedOnlyPastLimit /\ [][NeverUnlocked]_vars

\* an effective Explain click whose subscription check reported a subscription
SubscribedClick ==
    /\ clicks' = clicks + 1
    /\ outcome'.sub.has_subscription

\* C25: when the subscription check reports has_subscription true, an
\* Explain click reaches the explanation and leaves search_count, locked and
\* show_subscription_popup as they were, whatever locked, searches_used and
\* search_limit are
C25_SubscriberNeverGated ==
    [][SubscribedClick =>
         /\ outcome'.kind = "explained"
         /\ shown' \in {"explanation", "AI Error"}
         /\ search_count' = search_count
         /\ locked' = locked
         /\ show_subscription_popup' = show_subscription_popup]_vars

\* a locked session's latest click was made by a subscriber who has used
\* the whole monthly limit
C25_Witness ==
    /\ locked
    /\ show_subscription_popup
    /\ outcome.sub.has_subscription
    /\ outcome.sub.searches_used >= outcome.sub.search_limit
    /\ outcome.kind = "explained"

(***************************************************************************)
(* Vocabulary of the properties about the admin pages.                     *)
(***************************************************************************)
HasRecord(docs, name) == \E i \in DOMAIN docs : docs[i].filename = name

\* the step removes the record of the name: a Delete that went through
DeleteStep(name) == HasRecord(papers, name) /\ ~HasRecord(papers', name)

\* C26: once Delete has removed a paper, its filename is not listed by
\* get_qp_files_by_session and get_pdf_file returns no file for it, whatever
\* uploads and re-uploads of the filename came before
C26_DeletedIsGone ==
    [][\A name \in AdminNames :
         DeleteStep(name) =>
           /\ name \notin listed_names(gridfs')
           /\ ~get_pdf_file_admin(gridfs', name)]_vars

\* C27: between get_pdf_file returning a path to a session and that session
\* reading it, the file at the path holds the complete stored content,
\* whatever other sessions fetch meanwhile
C27_CompleteWhileHeld ==
    \A s \in DOMAIN fetch :
      fetch[s].pc = "returned" => temp_files[fetch[s].name] = "complete"

(***************************************************************************)
(* Vocabulary of the properties about the buckets as a partition, read     *)
(* off the characters of a name.                                           *)
(***************************************************************************)
Underscores(name) == {i \in DOMAIN name : name[i] = "_"}

HasQpTag(name) ==
    \E i \in 1..(Len(name) - 3) : SubSeq(name, i, i + 3) = <<"_", "q", "p", "_">>

\* the characters between the first and the second underscore
SessionCodeLen(name) ==
    LET first == Min(Underscores(name))
        second == Min(Underscores(name) \ {first})
    IN  second - first - 1

\* a question paper the buckets are to hold
Qualifies(name) ==
    /\ HasQpTag(name)
    /\ Cardinality(Underscores(name)) + 1 >= 3
    /\ SessionCodeLen(name) >= 2

StoredNames == [i \in DOMAIN fs |-> fs[i].filename]

BucketsHolding(name) ==
    {b \in DOMAIN sessions.items :
       \E j \in DOMAIN sessions.items[b].files :
         sessions.items[b].files[j] = name}

\* C28: every stored file whose name contains '_qp_', has at least 3
\* underscore-separated parts and a session code of at least 2 characters
\* is in exactly one bucket, each bucket lists its files once each in the
\* order the store enumerates them, and a file whose name lacks '_qp_' is
\* in no bucket
C28_Partition ==
    Listed =>
      /\ \A i \in DOMAIN fs :
           Qualifies(StoredNames[i]) =>
             Cardinality(BucketsHolding(StoredNames[i])) = 1
      /\ \A i \in DOMAIN fs :
           ~HasQpTag(StoredNames[i]) => BucketsHolding(StoredNames[i]) = {}
      /\ \A b \in DOMAIN sessions.items :
           sessions.items[b].files =
             SelectSeq(StoredNames,
                       LAMBDA n : Qualifies(n) /\ b \in BucketsHolding(n))

\* a listing of a store that holds a marking scheme and a paper stored
\* twice: one bucket of two files
C28_Witness ==
    /\ Listed
    /\ \E i \in DOMAIN fs : ~HasQpTag(StoredNames[i])
    /\ \E i, j \in DOMAIN fs :
         /\ i < j
         /\ StoredNames[i] = StoredNames[j]
         /\ Qualifies(StoredNames[i])
    /\ Len(sessions.items) = 1
    /\ Len(sessions.items[1].files) = 2

(***************************************************************************)
(* Vocabulary of the properties about digit-led lines, read off the        *)
(* characters without any pattern matching.                                *)
(***************************************************************************)
\* the position after the whitespace that starts at p
SkipSpaces(s, p) == Min({i \in p..Len(s) : i = Len(s) \/ ~IsSpace(s[i + 1])})

\* the position after the digits that start at a
SkipDigits(s, a) == Min({i \in a..Len(s) : i = Len(s) \/ s[i + 1] \notin Digits})

\* after optional whitespace there are one or more digits at p, and no
\* letter, digit or underscore right after them
DigitLed(s, p) ==
    LET a == SkipSpaces(s, p)
        d == SkipDigits(s, a)
    IN  /\ d > a
        /\ d = Len(s) \/ ~IsWord(s[d + 1])

IsSubstring(s, sub) ==
    \E i \in 1..(Len(s) - Len(sub) + 1) : SubSeq(s, i, i + Len(sub) - 1) = sub

\* C29: a found result for a non-blank label is a non-empty contiguous
\* substring of the text, begins with the label stripped of surrounding
\* whitespace, has no leading or trailing whitespace, and has no
\* label-shaped line after its first line
C29_FoundBlockShape ==
    (Found /\ ~AllBlank(q)) =>
        /\ result.ret # <<>>
        /\ IsSubstring(text, result.ret)
        /\ HasPrefix(result.ret, Trimmed(q))
        /\ ~IsSpace(result.ret[1])
        /\ ~IsSpace(result.ret[Len(result.ret)])
        /\ \A p \in LineStarts(result.ret) \ {0} : ~DigitLed(result.ret, p)

\* '3(a) x\nx\n4 x\n' with label ' 3(a)': a block of two lines, cut at '4 x'
C29_Witness ==
    /\ Found
    /\ text = <<"3", "(", "a", ")", " ", "x", NL, "x", NL, "4", " ", "x", NL>>
    /\ q = <<"3", "(", "a", ")">>
    /\ result.ret = <<"3", "(", "a", ")", " ", "x", NL, "x">>

Str_3rd == <<" ", "3", "r", "d">>

Str_9_8 == <<"9", ".", "8">>

\* the same within the line that starts at p
DigitLedLine(s, p) == DigitLed(LineBody(s, p), 0)

\* C30 as stated: the next-label pattern accepts a line exactly when the
\* line, after optional whitespace, starts with one or more digits that no
\* letter, digit or underscore follows
C30_DigitsDecideWithinLine ==
    Called =>
        \A p \in LineStarts(text) : next_token(text, p) <=> DigitLedLine(text, p)

\* C30, amended: the next-label pattern accepts at a line start exactly
\* when, after optional whitespace that may run over line ends, one or more
\* digits stand there that no letter, digit or underscore follows, whatever
\* parenthesised groups come after them: a body line '9.8' ends the block
\* and ' 3rd' does not
C30_DigitsDecide ==
    Called =>
        /\ \A p \in LineStarts(text) : next_token(text, p) <=> DigitLed(text, p)
        /\ (text = Str_3x \o <<NL>> \o Str_9_8 \o <<NL>> /\ q = <<"3">>)
             => result.ret = Str_3x
        /\ (text = Str_3x \o <<NL>> \o Str_3rd \o <<NL>> /\ q = <<"3">>)
             => result.ret = Str_3x \o <<NL>> \o Str_3rd

\* '3 x\n 3rd\n9.8\n' with label '3': the block runs over ' 3rd' and stops
\* before '9.8'
C30_Witness ==
    /\ Called
    /\ text = Str_3x \o <<NL>> \o Str_3rd \o <<NL>> \o Str_9_8 \o <<NL>>
    /\ q = <<"3">>
    /\ result.ret = Str_3x \o <<NL>> \o Str_3rd
    /\ next_token(text, 9)
    /\ ~next_token(text, 4)

====
